---- MODULE Spec2Model ----
(***************************************************************************)
(* Model of the error-classification pipeline of the Fastify API:          *)
(* src/middleware/error-handler.ts (handlers, registry, global handler),   *)
(* src/errors/base.ts, src/errors/user-errors.ts (domain errors) and       *)
(* src/errors/index.ts (getLogLevel); the request context (context.ts,     *)
(* the onRequest hook and genReqId of the server); postService and         *)
(* userService.create over their tables.                                   *)
(*                                                                         *)
(* A JavaScript value that may be absent (undefined) is modelled as a set  *)
(* with at most one element: {} is undefined, {v} is the value v.          *)
(* An object literal is a TLA+ record; {} is the empty function <<>>.      *)
(***************************************************************************)
EXTENDS Integers, Sequences, FiniteSets, TLC

VARIABLES handlers, pc, raw, request, handler, errorInfo, response,
          log, console, reply, outcome, steps, nHandled,
          conns, outsideSeen,
          posts, postCalls, clock,
          users, userCalls,
          shuttingDown, forceExit, closing, onCloseRan, closeCalls, timers,
          startPc, isReady, exitCode, signals, ready

\* the registry and the last invocation of the global error handler
handlerVars == <<handlers, pc, raw, request, handler, errorInfo, response,
                 log, console, reply, outcome, steps, nHandled>>

\* the requests in flight and their AsyncLocalStorage stores
requestVars == <<conns, outsideSeen>>

\* the posts table, the postService calls in progress and the time
postVars == <<posts, postCalls, clock>>

\* the users table and the userService.create calls in progress
userVars == <<users, userCalls>>

\* the process: start(), shutdown(), the readiness flag and the exit
procVars == <<shuttingDown, forceExit, closing, onCloseRan, closeCalls, timers,
              startPc, isReady, exitCode, signals, ready>>

vars == <<handlerVars, requestVars, postVars, userVars, procVars>>

(***************************************************************************)
(* Bounds of the model.                                                    *)
(***************************************************************************)
\* longest list of issues carried by a modelled ZodError
MaxIssues == 2
\* number of invocations of the global error handler in one behaviour
MaxHandled == 2
\* latest time a write statement of postService can happen at
MaxClock == 3
\* number of signals and uncaught failures delivered to the process
MaxSignals == 3

(***************************************************************************)
(* Optional values.                                                        *)
(***************************************************************************)
Undefined == {}

Some(v) == {v}

Get(o) == CHOOSE v \in o : TRUE

\* a ?? b
NullishCoalesce(o, d) == IF o = Undefined THEN d ELSE Get(o)

\* a || b on an optional string: undefined and "" are falsy
OrDefault(o, d) == IF o = Undefined \/ o = Some("") THEN d ELSE Get(o)

(***************************************************************************)
(* Input alphabet: the values routes and libraries can raise.              *)
(***************************************************************************)
StatusCodes == {0, 199, 200, 299, 300, 399, 400, 404, 499, 500, 599, 700}

Codes == {"", "USER_NOT_FOUND"}

Messages == {"disk full"}

Contexts == {<<>>, [userId |-> 42], [userId |-> 7]}

StackTrace == "Error\n    at handler (routes/users.ts:17:19)"

RequestIds == {"req-1", "req-2"}

\* req-2 is sent without a user-agent header
Requests ==
    { [id |-> i, url |-> "/users/42", method |-> "GET",
       userAgent |-> IF i = "req-1" THEN Some("curl/8.0") ELSE Undefined] :
        i \in RequestIds }

Timestamps == {"2024-01-01T00:00:00.000Z"}

(***************************************************************************)
(* Error objects.  cls is the constructor of the object, props the names   *)
(* of the properties the `in` operator finds besides message and stack.    *)
(***************************************************************************)
ErrorObject(cls, message) ==
    [type |-> "object", cls |-> cls, message |-> message, stack |-> StackTrace,
     props |-> {}, statusCode |-> Undefined, code |-> Undefined,
     context |-> <<>>, issues |-> <<>>,
     query |-> "", params |-> <<>>, cause |-> Undefined]

\* a thrown value that is not an object (throw "boom")
Primitive(v) == [type |-> "string", value |-> v]

IsObject(err) == err.type = "object"

\* Object.assign(err, {statusCode, code}) for the attributes that are given
WithAttributes(err, statusCode, code) ==
    [err EXCEPT !.props = @ \cup (IF statusCode = Undefined THEN {} ELSE {"statusCode"})
                            \cup (IF code = Undefined THEN {} ELSE {"code"}),
                !.statusCode = IF statusCode = Undefined THEN @ ELSE statusCode,
                !.code = IF code = Undefined THEN @ ELSE code]

\* new AppError(message, statusCode, code, context), and its subclasses
AppError(cls, message, statusCode, code, context) ==
    [ErrorObject(cls, message) EXCEPT
        !.props = {"statusCode", "code", "context"},
        !.statusCode = Some(statusCode),
        !.code = Some(code),
        !.context = context]

\* { key: value, ...context }
Spread(key, value, context) ==
    [k \in {key} \cup DOMAIN context |->
        IF k \in DOMAIN context THEN context[k] ELSE value]

UserError_notFound(userId, context) ==
    AppError("UserError", "User not found", 404, "USER_NOT_FOUND",
             Spread("userId", userId, context))

UserError_creationFailed(context) ==
    AppError("UserError", "Failed to create user", 500, "USER_CREATION_FAILED",
             context)

UserError_authenticationFailed(context) ==
    AppError("UserError", "Authentication failed - invalid credentials", 401,
             "AUTHENTICATION_FAILED", context)

\* a factory that leaves the field name out of the context
UserError_alreadyExists_noField(field, context) ==
    AppError("UserError", "User already exists", 409, "USER_ALREADY_EXISTS",
             context)

UserError_alreadyExists(field, context) ==
    AppError("UserError", "User already exists", 409, "USER_ALREADY_EXISTS",
             Spread("field", field, context))

PostError_notFound(postId, context) ==
    AppError("PostError", "Post not found", 404, "POST_NOT_FOUND",
             Spread("postId", postId, context))

PostError_alreadyPublished(postId, context) ==
    AppError("PostError", "Post is already published", 409,
             "POST_ALREADY_PUBLISHED", Spread("postId", postId, context))

\* a factory whose status was copied from the validation errors
PostError_notPublished_badRequest(postId, context) ==
    AppError("PostError", "Post is not published", 400,
             "POST_NOT_PUBLISHED", Spread("postId", postId, context))

PostError_notPublished(postId, context) ==
    AppError("PostError", "Post is not published", 409,
             "POST_NOT_PUBLISHED", Spread("postId", postId, context))

DatabaseError_constraintViolation(operation, constraint, context) ==
    AppError("DatabaseError", "Database constraint violation", 409,
             "DATABASE_CONSTRAINT_VIOLATION",
             Spread("operation", operation, Spread("constraint", constraint, context)))

DatabaseError_connectionFailed(context) ==
    AppError("DatabaseError", "Database connection failed", 503,
             "DATABASE_CONNECTION_FAILED", context)

DatabaseError_queryFailed(operation, context) ==
    AppError("DatabaseError", "Database query failed", 500,
             "DATABASE_QUERY_FAILED", Spread("operation", operation, context))

\* the prototype chain of the modelled constructors
ClassChain(cls) ==
    CASE cls = "UserError" -> {"UserError", "AppError", "Error"}
      [] cls = "PostError" -> {"PostError", "AppError", "Error"}
      [] cls = "DatabaseError" -> {"DatabaseError", "AppError", "Error"}
      [] cls = "AppError" -> {"AppError", "Error"}
      [] cls = "ZodError" -> {"ZodError", "Error"}
      [] cls = "DrizzleError" -> {"DrizzleError", "Error"}
      [] cls = "TransactionRollbackError" ->
            {"TransactionRollbackError", "DrizzleError", "Error"}
      [] cls = "DrizzleQueryError" -> {"DrizzleQueryError", "Error"}
      [] OTHER -> {"Error"}

\* err instanceof C; false for every value that is not an object
InstanceOf(err, C) == IsObject(err) /\ C \in ClassChain(err.cls)

\* name in err; a TypeError when err is not an object
InThrows(err) == ~IsObject(err)

In(name, err) == name \in err.props

(***************************************************************************)
(* Zod issues.  A path segment is a property key or an array index.        *)
(***************************************************************************)
Key(s) == [k |-> "key", s |-> s]

Index(n) == [k |-> "index", n |-> n]

Digit(n) == CASE n = 0 -> "0" [] n = 1 -> "1" [] n = 2 -> "2" [] n = 3 -> "3"
              [] n = 4 -> "4" [] n = 5 -> "5" [] n = 6 -> "6" [] n = 7 -> "7"
              [] n = 8 -> "8" [] n = 9 -> "9"

RECURSIVE NumberToString(_)
NumberToString(n) ==
    IF n < 10 THEN Digit(n) ELSE NumberToString(n \div 10) \o Digit(n % 10)

\* String(segment), the conversion Array.prototype.join applies
SegmentToString(seg) == IF seg.k = "key" THEN seg.s ELSE NumberToString(seg.n)

RECURSIVE JoinFrom(_, _, _)
JoinFrom(path, i, sep) ==
    IF i > Len(path) THEN ""
    ELSE sep \o SegmentToString(path[i]) \o JoinFrom(path, i + 1, sep)

\* a join that also puts the separator in front of the first segment
Join_leadingSeparator(path, sep) == JoinFrom(path, 1, sep)

\* path.join(sep)
Join(path, sep) ==
    IF Len(path) = 0 THEN ""
    ELSE SegmentToString(path[1]) \o JoinFrom(path, 2, sep)

Issue(path, message, received) ==
    [path |-> path, message |-> message, received |-> received]

Issues ==
    { Issue(<<Key("email")>>, "Invalid email format", Undefined),
      Issue(<<Key("user"), Key("email")>>, "Required", Some("undefined")),
      Issue(<<Key("tags"), Index(12)>>, "Expected string", Some("number")),
      Issue(<<>>, "Required", Undefined) }

IssueLists == UNION { [1..n -> Issues] : n \in 0..MaxIssues }

ZodError(issues) == [ErrorObject("ZodError", "validation") EXCEPT !.issues = issues]

\* new DrizzleQueryError(query, params, cause)
DrizzleQueryError(query, params, cause) ==
    [ErrorObject("DrizzleQueryError", "Failed query: " \o query) EXCEPT
        !.query = query, !.params = params, !.cause = cause]

DrizzleError(cls, message) == ErrorObject(cls, message)

Queries == {"select * from users where email = ?"}

ParamLists == {<<>>, <<"a@example.com">>}

Causes == {Undefined, Some("Duplicate entry 'a@example.com' for key 'email'")}

ZodErrors == { ZodError(is) : is \in IssueLists }

AttributeSets ==
    { [statusCode |-> s, code |-> c] :
        s \in {Undefined} \cup { Some(n) : n \in StatusCodes },
        c \in {Undefined} \cup { Some(x) : x \in Codes } }

DrizzleErrors ==
    { WithAttributes(e, a.statusCode, a.code) :
        e \in { DrizzleQueryError(q, p, c) :
                    q \in Queries, p \in ParamLists, c \in Causes }
              \cup { DrizzleError(cls, "Rollback") :
                    cls \in {"DrizzleError", "TransactionRollbackError"} },
        a \in { x \in AttributeSets :
                    /\ x.statusCode \in {Undefined, Some(404)}
                    /\ x.code \in {Undefined, Some("USER_NOT_FOUND")} } }

AppErrors ==
    { AppError("AppError", m, s, c, ctx) :
        m \in {"User not found"}, s \in StatusCodes, c \in Codes, ctx \in Contexts }
    \cup { UserError_notFound(id, ctx) : id \in {42, 7}, ctx \in {<<>>, [op |-> "get"]} }

\* the context arguments given to the factories; the second one tries to
\* smuggle in a status and a code
FactoryContexts == {<<>>, [statusCode |-> 200, code |-> "OK"]}

\* the errors each named factory produces
FactoryProducts(name) ==
    CASE name = "UserError.notFound" ->
            { UserError_notFound(id, ctx) : id \in {42, 7}, ctx \in FactoryContexts }
      [] name = "UserError.alreadyExists" ->
            { UserError_alreadyExists("email", ctx) : ctx \in FactoryContexts }
      [] name = "UserError.creationFailed" ->
            { UserError_creationFailed(ctx) : ctx \in FactoryContexts }
      [] name = "UserError.authenticationFailed" ->
            { UserError_authenticationFailed(ctx) : ctx \in FactoryContexts }
      [] name = "PostError.notFound" ->
            { PostError_notFound(1, ctx) : ctx \in FactoryContexts }
      [] name = "PostError.alreadyPublished" ->
            { PostError_alreadyPublished(1, ctx) : ctx \in FactoryContexts }
      [] name = "PostError.notPublished" ->
            { PostError_notPublished(1, ctx) : ctx \in FactoryContexts }
      [] name = "DatabaseError.constraintViolation" ->
            { DatabaseError_constraintViolation("User creation", "unique constraint", ctx) :
                ctx \in FactoryContexts }
      [] name = "DatabaseError.connectionFailed" ->
            { DatabaseError_connectionFailed(ctx) : ctx \in FactoryContexts }
      [] name = "DatabaseError.queryFailed" ->
            { DatabaseError_queryFailed("User creation", ctx) : ctx \in FactoryContexts }

FactoryNames ==
    {"UserError.notFound", "UserError.alreadyExists", "UserError.creationFailed",
     "UserError.authenticationFailed", "PostError.notFound",
     "PostError.alreadyPublished", "PostError.notPublished",
     "DatabaseError.constraintViolation", "DatabaseError.connectionFailed",
     "DatabaseError.queryFailed"}

FactoryErrors == UNION { FactoryProducts(name) : name \in FactoryNames }

DuplicateEntry == "Duplicate entry 'a@example.com' for key 'users.users_email_unique'"

\* what a failed insert on the unique email column raises: the
\* DrizzleQueryError wrapping the driver's error, or the driver's error itself
DuplicateKeyFailures ==
    { DrizzleQueryError("insert into users (email, password) values (?, ?)",
                        <<"a@example.com", "$2b$12$hash">>, Some(DuplicateEntry)),
      WithAttributes(ErrorObject("Error", DuplicateEntry), Undefined,
                     Some("ER_DUP_ENTRY")) }

PlainErrors ==
    { WithAttributes(ErrorObject("Error", m), a.statusCode, a.code) :
        m \in Messages, a \in AttributeSets }

RawValues ==
    ZodErrors \cup DrizzleErrors \cup AppErrors \cup FactoryErrors
    \cup DuplicateKeyFailures \cup PlainErrors \cup { Primitive("boom") }

(***************************************************************************)
(* The five handlers.                                                      *)
(***************************************************************************)
GenericErrorHandler_canHandle(err) == TRUE

GenericErrorHandler_handle(err) ==
    [statusCode |-> 500, code |-> "INTERNAL_SERVER_ERROR",
     message |-> err.message, stack |-> err.stack, context |-> <<>>]

GenericErrorHandler_buildResponse(info) ==
    [error |-> "Internal Server Error", code |-> info.code, context |-> info.context]

ZodErrorHandler_canHandle(err) == InstanceOf(err, "ZodError")

ZodErrorHandler_handle(err) ==
    [statusCode |-> 400, code |-> "VALIDATION_ERROR",
     message |-> "Request validation failed", stack |-> err.stack,
     context |->
        [validation |->
            [k \in 1..Len(err.issues) |->
                [field |-> Join(err.issues[k].path, "."),
                 message |-> err.issues[k].message,
                 received |-> err.issues[k].received]]]]

ZodErrorHandler_buildResponse(info) ==
    [error |-> "Validation Error", code |-> info.code, context |-> info.context]

AppErrorHandler_canHandle(err) == InstanceOf(err, "AppError")

AppErrorHandler_handle(err) ==
    [statusCode |-> Get(err.statusCode), code |-> Get(err.code),
     message |-> err.message, stack |-> err.stack, context |-> err.context]

\* a response that withholds the context, as the Drizzle handler's does
AppErrorHandler_buildResponse_noContext(info) ==
    [error |-> "Application Error", code |-> info.code]

AppErrorHandler_buildResponse(info) ==
    [error |-> "Application Error", code |-> info.code, context |-> info.context]

DrizzleErrorHandler_canHandle(err) ==
    InstanceOf(err, "DrizzleError") \/ InstanceOf(err, "DrizzleQueryError")

\* a handler without the DrizzleQueryError branch
DrizzleErrorHandler_handle_noQueryBranch(err) ==
    [statusCode |-> 500, code |-> "DATABASE_ERROR",
     message |-> "Database operation failed", stack |-> err.stack,
     context |-> [message |-> err.message]]

DrizzleErrorHandler_handle(err) ==
    IF InstanceOf(err, "DrizzleQueryError")
    THEN [statusCode |-> 400, code |-> "DATABASE_QUERY_ERROR",
          message |-> "Database query failed", stack |-> err.stack,
          context |-> [query |-> err.query, params |-> err.params,
                       cause |-> err.cause]]
    ELSE [statusCode |-> 500, code |-> "DATABASE_ERROR",
          message |-> "Database operation failed", stack |-> err.stack,
          context |-> [message |-> err.message]]

\* a response that passes the context on, as the other handlers' do
DrizzleErrorHandler_buildResponse_withContext(info) ==
    [error |-> "Internal Server Error", code |-> info.code, context |-> info.context]

DrizzleErrorHandler_buildResponse(info) ==
    [error |-> "Internal Server Error", code |-> info.code]

FastifyErrorHandler_canHandle(err) == In("statusCode", err) \/ In("code", err)

FastifyErrorHandler_handle(err) ==
    [statusCode |-> NullishCoalesce(err.statusCode, 500),
     code |-> OrDefault(err.code, "INTERNAL_SERVER_ERROR"),
     message |-> err.message, stack |-> err.stack, context |-> <<>>]

FastifyErrorHandler_buildResponse(info) ==
    [error |-> "Server Error", code |-> info.code, context |-> info.context]

\* dynamic dispatch h.canHandle(err)
canHandle(h, err) ==
    CASE h = "ZodErrorHandler" -> ZodErrorHandler_canHandle(err)
      [] h = "DrizzleErrorHandler" -> DrizzleErrorHandler_canHandle(err)
      [] h = "AppErrorHandler" -> AppErrorHandler_canHandle(err)
      [] h = "FastifyErrorHandler" -> FastifyErrorHandler_canHandle(err)
      [] h = "GenericErrorHandler" -> GenericErrorHandler_canHandle(err)

\* h.canHandle(err) raises a TypeError: only the `in` operator can
canHandleThrows(h, err) == h = "FastifyErrorHandler" /\ InThrows(err)

handle(h, err) ==
    CASE h = "ZodErrorHandler" -> ZodErrorHandler_handle(err)
      [] h = "DrizzleErrorHandler" -> DrizzleErrorHandler_handle(err)
      [] h = "AppErrorHandler" -> AppErrorHandler_handle(err)
      [] h = "FastifyErrorHandler" -> FastifyErrorHandler_handle(err)
      [] h = "GenericErrorHandler" -> GenericErrorHandler_handle(err)

buildResponse(h, info) ==
    CASE h = "ZodErrorHandler" -> ZodErrorHandler_buildResponse(info)
      [] h = "DrizzleErrorHandler" -> DrizzleErrorHandler_buildResponse(info)
      [] h = "AppErrorHandler" -> AppErrorHandler_buildResponse(info)
      [] h = "FastifyErrorHandler" -> FastifyErrorHandler_buildResponse(info)
      [] h = "GenericErrorHandler" -> GenericErrorHandler_buildResponse(info)

(***************************************************************************)
(* ErrorHandlerRegistry.                                                   *)
(***************************************************************************)
\* unshift instead of push
register_unshift(hs, h) == <<h>> \o hs

register(hs, h) == Append(hs, h)

\* Array.prototype.find: scans from the first element; the result is the
\* element found, "undefined" when none matches, or the exception raised
\* by the callback
RECURSIVE find(_, _, _)
find(hs, i, err) ==
    IF i > Len(hs) THEN [kind |-> "undefined"]
    ELSE IF canHandleThrows(hs[i], err) THEN [kind |-> "throw"]
    ELSE IF canHandle(hs[i], err) THEN [kind |-> "found", handler |-> hs[i]]
    ELSE find(hs, i + 1, err)

findHandler(hs, err) ==
    LET found == find(hs, 1, err)
    IN  IF found.kind = "undefined"
        THEN [kind |-> "found", handler |-> hs[Len(hs)]]
        ELSE found

\* the attribute-based handler registered before the domain handler
RegistrationOrder_fastifyBeforeApp ==
    <<"ZodErrorHandler", "DrizzleErrorHandler", "FastifyErrorHandler",
      "AppErrorHandler", "GenericErrorHandler">>

\* a lookup that consumes the entries it has tried, moving them to the end
handlersAfterFind_rotate(hs) == Tail(hs) \o <<Head(hs)>>

\* Array.prototype.find reads this.handlers and leaves it as it is
handlersAfterFind(hs) == hs

\* the order of the register calls of createErrorHandler
RegistrationOrder ==
    <<"ZodErrorHandler", "DrizzleErrorHandler", "AppErrorHandler",
      "FastifyErrorHandler", "GenericErrorHandler">>

RECURSIVE registerAll(_, _, _)
registerAll(hs, order, i) ==
    IF i > Len(order) THEN hs ELSE registerAll(register(hs, order[i]), order, i + 1)

(***************************************************************************)
(* getLogLevel and the reply.                                              *)
(***************************************************************************)
\* strict comparisons: the boundary codes fall into the level below
getLogLevel_strict(statusCode) ==
    IF statusCode > 500 THEN "fatal"
    ELSE IF statusCode > 400 THEN "error"
    ELSE IF statusCode > 300 THEN "warn"
    ELSE IF statusCode > 200 THEN "info"
    ELSE "info"

getLogLevel(statusCode) ==
    IF statusCode >= 500 THEN "fatal"
    ELSE IF statusCode >= 400 THEN "error"
    ELSE IF statusCode >= 300 THEN "warn"
    ELSE IF statusCode >= 200 THEN "info"
    ELSE "info"

\* the response sent as it is, without the request id
replyBody_noRequestId(requestId, resp) == resp

\* { requestId: req.id, ...response }
replyBody(requestId, resp) ==
    [k \in {"requestId"} \cup DOMAIN resp |->
        IF k \in DOMAIN resp THEN resp[k] ELSE requestId]

\* reply.status(statusCode)
replyStatus(info) == info.statusCode

logData(req, ts, info) ==
    [request |-> [requestId |-> req.id, url |-> req.url, method |-> req.method,
                  userAgent |-> req.userAgent, timestamp |-> ts],
     error |-> info]

(***************************************************************************)
(* State machine.                                                          *)
(***************************************************************************)
NoRecord == <<>>

InitHandler ==
    /\ handlers = <<>>
    /\ pc = "start"
    /\ raw = NoRecord
    /\ request = NoRecord
    /\ handler = "none"
    /\ errorInfo = NoRecord
    /\ response = NoRecord
    /\ log = <<>>
    /\ console = <<>>
    /\ reply = [sent |-> 0]
    /\ outcome = "none"
    /\ steps = <<>>
    /\ nHandled = 0

(***************************************************************************)
(* Request context: context.ts, the onRequest hook, genReqId.              *)
(* A connection carries one request at a time.  Every continuation of a    *)
(* request runs with the store that context.run bound to the request's     *)
(* asynchronous execution; code outside any run has no store.              *)
(***************************************************************************)
Conns == {"A", "B"}

\* the x-request-id header a client may send
ClientHeaders == {Undefined} \cup { Some(i) : i \in RequestIds }

\* randomUUID(): a fresh value for every connection
randomUUID(c) == "uuid-" \o c

\* a server that ignores the client's header
genReqId_ignoreHeader(header, uuid) == uuid

\* genReqId: req.headers['x-request-id'] ?? randomUUID()
genReqId(header, uuid) == NullishCoalesce(header, uuid)

\* a store kept in one module-level variable shared by all requests
setContext_shared(cs, c, store) ==
    [x \in DOMAIN cs |-> [cs[x] EXCEPT !.store = Some(store)]]

\* setContext(store, done) = context.run(store, done): the store is bound
\* to the asynchronous execution of the request that called it
setContext(cs, c, store) == [cs EXCEPT ![c].store = Some(store)]

\* getRequestId() = context.getStore()?.requestId, for the store of the
\* execution that calls it
getRequestId(store) ==
    IF store = Undefined THEN Undefined ELSE Some(Get(store).requestId)

IdleConn ==
    [phase |-> "idle", id |-> "", client |-> Undefined, header |-> Undefined,
     store |-> Undefined, seen |-> {}, out |-> Undefined]

InitRequests ==
    /\ conns = [c \in Conns |-> IdleConn]
    /\ outsideSeen = {}

(***************************************************************************)
(* postService over the posts table.  A row is a record, NULL is           *)
(* Undefined; every method is a write statement followed by a select, or   *)
(* one select, and calls of different callers interleave between the       *)
(* statements.                                                             *)
(***************************************************************************)
PostIds == {1, 2}

Callers == {"c1", "c2"}

PostRow(id, title, content) ==
    [id |-> id, title |-> title, content |-> content, published_at |-> Undefined,
     deleted_at |-> Undefined, updated_at |-> Some(0)]

\* UpdatePost values given to update
UpdateData == {[title |-> "t2"], [content |-> "c2"]}

\* .set(data) on one row
SetFields(row, data) ==
    [k \in DOMAIN row |-> IF k \in DOMAIN data THEN data[k] ELSE row[k]]

\* db.update(posts).set(data).where(eq(posts.id, id))
UpdateWhereId(table, id, data) ==
    IF table[id] = Undefined THEN table
    ELSE [table EXCEPT ![id] = Some(SetFields(Get(table[id]), data))]

\* db.select().from(posts).where(eq(posts.id, id)).limit(1), first element
SelectById(table, id) == table[id]

\* a lookup that forgets the deleted_at condition
findById_includingDeleted(table, id) == table[id]

\* postService.findById: eq(posts.id, id) and isNull(posts.deleted_at)
findById(table, id) ==
    IF table[id] # Undefined /\ Get(table[id]).deleted_at = Undefined
    THEN table[id] ELSE Undefined

\* postService.findDeleted: isNotNull(posts.deleted_at); the default limit
\* of 50 exceeds the size of the modelled table
findDeleted(table) ==
    { Get(table[id]) : id \in { i \in DOMAIN table :
          table[i] # Undefined /\ Get(table[i]).deleted_at # Undefined } }

\* the values the write statement of each method sets; update spreads
\* postData and adds updated_at
setOf(op, data, now) ==
    CASE op = "update" ->
            [k \in DOMAIN data \cup {"updated_at"} |->
                IF k = "updated_at" THEN Some(now) ELSE data[k]]
      [] op = "delete" -> [deleted_at |-> Some(now), updated_at |-> Some(now)]
      [] op = "restore" -> [deleted_at |-> Undefined, updated_at |-> Some(now)]
      [] op = "publish" -> [published_at |-> Some(now), updated_at |-> Some(now)]
      [] op = "unpublish" -> [published_at |-> Undefined, updated_at |-> Some(now)]

\* what each method returns from the row its select found
returnOf(op, found) ==
    CASE op = "update" -> found
      [] op = "delete" -> (found # Undefined)
      [] op = "restore" -> found
      [] op = "publish" -> found
      [] op = "unpublish" -> found

\* the methods that select the post and test it before they write
CheckedOps == {"publish", "unpublish"}

\* a test that lets a published post be published again
checkOf_noPublishedTest(op, existingPost, id) ==
    IF existingPost = Undefined THEN Some(PostError_notFound(id, <<>>))
    ELSE Undefined

\* the throws that follow the select of publish and unpublish: the error
\* raised, or Undefined when the method goes on to its write
checkOf(op, existingPost, id) ==
    IF existingPost = Undefined THEN Some(PostError_notFound(id, <<>>))
    ELSE IF op = "publish" /\ Get(existingPost).published_at # Undefined
         THEN Some(PostError_alreadyPublished(id, <<>>))
    ELSE IF op = "unpublish" /\ Get(existingPost).published_at = Undefined
         THEN Some(PostError_notPublished(id, <<>>))
    ELSE Undefined

IdleCall ==
    [op |-> "none", id |-> 0, data |-> <<>>, pc |-> "idle",
     before |-> Undefined, existingPost |-> Undefined,
     result |-> Undefined, error |-> Undefined]

InitPosts ==
    /\ posts = [id \in PostIds |->
                  IF id = 1 THEN Some(PostRow(1, "t1", "c1")) ELSE Undefined]
    /\ postCalls = [c \in Callers |-> IdleCall]
    /\ clock = 0

(***************************************************************************)
(* userService.create over the users table, whose email column is unique.  *)
(* The table is the sequence of its rows in insertion order; the id of a   *)
(* row is its auto-increment position.                                     *)
(***************************************************************************)
Emails == {"a@example.com", "b@example.com"}

Passwords == {"pw1", "pw2"}

UserIds == {1, 2}

\* bcrypt.hash(password, 12): a string that carries the bcrypt prefix
hashPassword(password) == "$2b$12$" \o password

DuplicateEntryFor(email) ==
    "Duplicate entry '" \o email \o "' for key 'users.users_email_unique'"

\* what the insert raises when the unique index on email rejects the row:
\* the DrizzleQueryError wrapping the driver's error, or the driver's error
InsertFailures(email, hashed) ==
    { DrizzleQueryError("insert into users (email, password) values (?, ?)",
                        <<email, hashed>>, Some(DuplicateEntryFor(email))),
      WithAttributes(ErrorObject("Error", DuplicateEntryFor(email)), Undefined,
                     Some("ER_DUP_ENTRY")) }

\* db.select().from(users).where(eq(users.email, email))
SelectByEmail(table, email) ==
    { i \in DOMAIN table : table[i].email = email }

\* the error information the error handler derives from a raised Error
classify(err) ==
    handle(findHandler(registerAll(<<>>, RegistrationOrder, 1), err).handler, err)

\* db.select().from(users).where(eq(users.id, id)).limit(1), first element
SelectUserById(table, id) ==
    IF id \in DOMAIN table THEN Some(table[id]) ELSE Undefined

\* a lookup that forgets to leave out the user being updated
isEmailAvailable_noExclude(table, email, excludeUserId) ==
    SelectByEmail(table, email) = {}

\* userService.isEmailAvailable; ids start at 1, so excludeUserId is truthy
isEmailAvailable(table, email, excludeUserId) ==
    { i \in SelectByEmail(table, email) : table[i].id # excludeUserId } = {}

\* db.update(users).set(data).where(eq(users.id, id)); set() drops the keys
\* of data that name no column of the table
UpdateUserWhereId(table, id, data) ==
    IF id \notin DOMAIN table THEN table
    ELSE [table EXCEPT ![id] =
            [k \in DOMAIN @ |->
                IF k \in DOMAIN data THEN data[k] ELSE @[k]]]

\* what the update raises when the unique index on email rejects the value
UpdateFailures(email) ==
    { DrizzleQueryError("update users set email = ? where id = ?",
                        <<email>>, Some(DuplicateEntryFor(email))),
      WithAttributes(ErrorObject("Error", DuplicateEntryFor(email)), Undefined,
                     Some("ER_DUP_ENTRY")) }

\* request bodies that pass UserDataRequest, and those of the password change
Bodies == { [email |-> e, password |-> p] : e \in Emails, p \in Passwords }

\* drizzleUserData as the POST and PUT routes build it from the parsed body
drizzleUserData(body) ==
    [email |-> body.email, password_hash |-> body.password]

IdleCreate ==
    [pc |-> "idle", op |-> "none", route |-> FALSE, id |-> 0, body |-> <<>>,
     userData |-> <<>>, hashed |-> Undefined, newId |-> 0,
     result |-> Undefined, error |-> Undefined]

InitUsers ==
    /\ users = <<>>
    /\ userCalls = [c \in Callers |-> IdleCreate]

(***************************************************************************)
(* The process of index.ts: start(), the four process.on handlers,         *)
(* shutdown(), the force-exit timer, and the readiness flag of the server. *)
(***************************************************************************)
\* a shutdown that never looks at the flag
shutdownReturnsEarly_never(flag) == FALSE

\* if (shuttingDown) return
shutdownReturnsEarly(flag) == flag

\* every exit reporting success
exitCodeOf_alwaysZero(path) == 0

\* the argument of process.exit in the finally block of shutdown(), in the
\* callback of the force-exit timer and in the catch block of start()
exitCodeOf(path) ==
    CASE path = "finally" -> 0
      [] path = "forceExit" -> 1
      [] path = "start" -> 1

\* GET /health/ready
readyReply(flag) ==
    IF ~flag THEN [statusCode |-> 503, ok |-> FALSE]
    ELSE [statusCode |-> 200, ok |-> TRUE]

InitProcess ==
    /\ shuttingDown = FALSE
    /\ forceExit = "none"
    /\ closing = "none"
    /\ onCloseRan = FALSE
    /\ closeCalls = 0
    /\ timers = 0
    /\ startPc = "registering"
    /\ isReady = FALSE
    /\ exitCode = Undefined
    /\ signals = <<>>
    /\ ready = Undefined

Init == InitHandler /\ InitRequests /\ InitPosts /\ InitUsers /\ InitProcess

\* caller c invokes a method of postService; before is the row at that
\* moment, kept for the frame conditions
PostCall(c, op, id, data) ==
    /\ postCalls[c].pc = "idle"
    /\ postCalls' = [postCalls EXCEPT ![c] =
            [op |-> op, id |-> id, data |-> data, pc |-> "called",
             before |-> posts[id], existingPost |-> Undefined,
             result |-> Undefined, error |-> Undefined]]
    /\ UNCHANGED <<posts, clock>>

\* the awaited select of publish and unpublish with the deleted_at
\* condition, and the throw when the post is missing or in the wrong state
PostCheck(c) ==
    /\ postCalls[c].pc = "called"
    /\ postCalls[c].op \in CheckedOps
    /\ LET existingPost == findById(posts, postCalls[c].id)
           thrown == checkOf(postCalls[c].op, existingPost, postCalls[c].id)
       IN  postCalls' = [postCalls EXCEPT
               ![c].existingPost = existingPost,
               ![c].error = thrown,
               ![c].pc = IF thrown = Undefined THEN "checked" ELSE "done"]
    /\ UNCHANGED <<posts, clock>>

\* the awaited db.update(...) of update, delete and restore, and the one of
\* publish and unpublish after their test
PostWrite(c) ==
    /\ \/ postCalls[c].pc = "called" /\ postCalls[c].op \in {"update", "delete", "restore"}
       \/ postCalls[c].pc = "checked"
    /\ clock < MaxClock
    /\ clock' = clock + 1
    /\ posts' = UpdateWhereId(posts, postCalls[c].id,
                              setOf(postCalls[c].op, postCalls[c].data, clock + 1))
    /\ postCalls' = [postCalls EXCEPT ![c].pc = "written"]

\* the awaited db.select(...) that follows the write, and the return
PostSelect(c) ==
    /\ postCalls[c].pc = "written"
    /\ postCalls' = [postCalls EXCEPT
            ![c].pc = "done",
            ![c].result = returnOf(postCalls[c].op, SelectById(posts, postCalls[c].id))]
    /\ UNCHANGED <<posts, clock>>

\* findById and findDeleted: one select
PostQuery(c) ==
    /\ postCalls[c].pc = "called"
    /\ postCalls[c].op \in {"findById", "findDeleted"}
    /\ postCalls' = [postCalls EXCEPT
            ![c].pc = "done",
            ![c].result = IF postCalls[c].op = "findById"
                          THEN findById(posts, postCalls[c].id)
                          ELSE findDeleted(posts)]
    /\ UNCHANGED <<posts, clock>>

\* the caller has taken the result and may call again
PostReturn(c) ==
    /\ postCalls[c].pc = "done"
    /\ postCalls' = [postCalls EXCEPT ![c] = IdleCall]
    /\ UNCHANGED <<posts, clock>>

NextPosts ==
    \/ \E c \in Callers, op \in {"update", "delete", "restore", "findById", "findDeleted"} \cup CheckedOps,
          id \in PostIds,
          data \in UpdateData :
            PostCall(c, op, id, IF op = "update" THEN data ELSE <<>>)
            /\ UNCHANGED <<handlerVars, requestVars, userVars, procVars>>
    \/ \E c \in Callers : PostCheck(c) /\ UNCHANGED <<handlerVars, requestVars, userVars, procVars>>
    \/ \E c \in Callers : PostWrite(c) /\ UNCHANGED <<handlerVars, requestVars, userVars, procVars>>
    \/ \E c \in Callers : PostSelect(c) /\ UNCHANGED <<handlerVars, requestVars, userVars, procVars>>
    \/ \E c \in Callers : PostQuery(c) /\ UNCHANGED <<handlerVars, requestVars, userVars, procVars>>
    \/ \E c \in Callers : PostReturn(c) /\ UNCHANGED <<handlerVars, requestVars, userVars, procVars>>

SpecPosts == Init /\ [][NextPosts]_vars

\* caller c invokes userService.create(userData)
CreateCall(c, email, password) ==
    /\ userCalls[c].pc = "idle"
    /\ userCalls' = [userCalls EXCEPT ![c] =
            [IdleCreate EXCEPT !.pc = "check", !.op = "create",
                               !.userData = [email |-> email, password |-> password]]]
    /\ UNCHANGED users

\* POST /users: the body is parsed and create is called with drizzleUserData
PostUsers(c, body) ==
    /\ userCalls[c].pc = "idle"
    /\ userCalls' = [userCalls EXCEPT ![c] =
            [IdleCreate EXCEPT !.pc = "check", !.op = "create", !.route = TRUE,
                               !.body = body, !.userData = drizzleUserData(body)]]
    /\ UNCHANGED users

\* the awaited select by email, and the throw when a row was found
CreateCheck(c) ==
    /\ userCalls[c].pc = "check"
    /\ userCalls[c].op = "create"
    /\ userCalls' = [userCalls EXCEPT ![c] =
            IF SelectByEmail(users, userCalls[c].userData.email) # {}
            THEN [@ EXCEPT !.pc = "done",
                           !.error = Some(UserError_alreadyExists("email",
                                              [email |-> userCalls[c].userData.email]))]
            ELSE [@ EXCEPT !.pc = "hash"]]
    /\ UNCHANGED users

\* the awaited this.hashPassword(userData.password); bcrypt rejects when
\* userData has no password
CreateHash(c) ==
    /\ userCalls[c].pc = "hash"
    /\ userCalls[c].op = "create"
    /\ userCalls' = [userCalls EXCEPT ![c] =
            IF "password" \in DOMAIN userCalls[c].userData
            THEN [@ EXCEPT !.pc = "insert",
                           !.hashed = Some(hashPassword(userCalls[c].userData.password))]
            ELSE [@ EXCEPT !.pc = "done", !.error = Some(ErrorObject("Error",
                                              "data and salt arguments required"))]]
    /\ UNCHANGED users

\* the awaited db.insert(users).values(userToCreate).$returningId(): the
\* unique index rejects a second row with the email and the rejection
\* leaves create as it is raised
CreateInsert(c) ==
    /\ userCalls[c].pc = "insert"
    /\ IF SelectByEmail(users, userCalls[c].userData.email) # {}
       THEN /\ \E err \in InsertFailures(userCalls[c].userData.email,
                                          Get(userCalls[c].hashed)) :
                   userCalls' = [userCalls EXCEPT ![c].pc = "done",
                                                  ![c].error = Some(err)]
            /\ UNCHANGED users
       ELSE /\ users' = Append(users,
                    [id |-> Len(users) + 1, email |-> userCalls[c].userData.email,
                     password |-> Get(userCalls[c].hashed),
                     deleted_at |-> Undefined])
            /\ userCalls' = [userCalls EXCEPT ![c].pc = "fetch",
                                              ![c].newId = Len(users) + 1]

\* the awaited select by the returned id, and the return or the throw
CreateFetch(c) ==
    /\ userCalls[c].pc = "fetch"
    /\ userCalls[c].op = "create"
    /\ userCalls' = [userCalls EXCEPT ![c] =
            IF userCalls[c].newId \in DOMAIN users
            THEN [@ EXCEPT !.pc = "done",
                           !.result = Some(users[userCalls[c].newId])]
            ELSE [@ EXCEPT !.pc = "done",
                           !.error = Some(UserError_creationFailed(
                                              [reason |-> "User not found after insert"]))]]
    /\ UNCHANGED users

\* the caller has taken the outcome and may call again
CreateReturn(c) ==
    /\ userCalls[c].pc = "done"
    /\ userCalls' = [userCalls EXCEPT ![c] = IdleCreate]
    /\ UNCHANGED users

\* where update continues after its email test: to the hash when a password
\* is given, else to the write
afterCheck(userData) ==
    IF "password" \in DOMAIN userData THEN "hash" ELSE "write"

\* caller c invokes userService.update(id, userData)
UpdateCall(c, id, userData) ==
    /\ userCalls[c].pc = "idle"
    /\ userCalls' = [userCalls EXCEPT ![c] =
            [IdleCreate EXCEPT !.pc = IF "email" \in DOMAIN userData THEN "check"
                                     ELSE afterCheck(userData),
                               !.op = "update",
                               !.id = id, !.userData = userData]]
    /\ UNCHANGED users

\* PUT /users/:id: the body is parsed and update is called with drizzleUserData
PutUser(c, id, body) ==
    /\ userCalls[c].pc = "idle"
    /\ userCalls' = [userCalls EXCEPT ![c] =
            [IdleCreate EXCEPT !.pc = "check",
                               !.op = "update", !.route = TRUE, !.id = id,
                               !.body = body, !.userData = drizzleUserData(body)]]
    /\ UNCHANGED users

\* PATCH /users/:id/password: updatePassword is called with new_password
PatchPassword(c, id, new_password) ==
    /\ userCalls[c].pc = "idle"
    /\ userCalls' = [userCalls EXCEPT ![c] =
            [IdleCreate EXCEPT !.pc = "hash", !.op = "updatePassword",
                               !.route = TRUE, !.id = id,
                               !.body = [new_password |-> new_password]]]
    /\ UNCHANGED users

\* DELETE /users/:id calls userService.delete
DeleteUser(c, id) ==
    /\ userCalls[c].pc = "idle"
    /\ userCalls' = [userCalls EXCEPT ![c] =
            [IdleCreate EXCEPT !.pc = "write", !.op = "delete", !.route = TRUE,
                               !.id = id]]
    /\ UNCHANGED users

\* GET /users/:id calls userService.findById
GetUser(c, id) ==
    /\ userCalls[c].pc = "idle"
    /\ userCalls' = [userCalls EXCEPT ![c] =
            [IdleCreate EXCEPT !.pc = "query", !.op = "findById", !.route = TRUE,
                               !.id = id]]
    /\ UNCHANGED users

\* GET /users calls userService.findAll
GetUsers(c) ==
    /\ userCalls[c].pc = "idle"
    /\ userCalls' = [userCalls EXCEPT ![c] =
            [IdleCreate EXCEPT !.pc = "query", !.op = "findAll", !.route = TRUE]]
    /\ UNCHANGED users

\* the awaited isEmailAvailable(userData.email, id) of update, and the throw
UpdateCheck(c) ==
    /\ userCalls[c].pc = "check"
    /\ userCalls[c].op = "update"
    /\ userCalls' = [userCalls EXCEPT ![c] =
            IF ~isEmailAvailable(users, userCalls[c].userData.email, userCalls[c].id)
            THEN [@ EXCEPT !.pc = "done",
                           !.error = Some(UserError_alreadyExists("email",
                                              [email |-> userCalls[c].userData.email]))]
            ELSE [@ EXCEPT !.pc = afterCheck(userCalls[c].userData)]]
    /\ UNCHANGED users

\* the awaited hashPassword of update and of updatePassword
UpdateHash(c) ==
    /\ userCalls[c].pc = "hash"
    /\ userCalls[c].op \in {"update", "updatePassword"}
    /\ userCalls' = [userCalls EXCEPT
            ![c].pc = "write",
            ![c].hashed = Some(hashPassword(
                IF userCalls[c].op = "update" THEN userCalls[c].userData.password
                ELSE userCalls[c].body.new_password))]
    /\ UNCHANGED users

\* the argument of set() in update, updatePassword and delete; updated_at,
\* which each of them sets, is not a modelled column
updateData(call) ==
    CASE call.op = "update" ->
            [k \in DOMAIN call.userData |->
                IF k = "password" /\ call.hashed # Undefined
                THEN Get(call.hashed) ELSE call.userData[k]]
      [] call.op = "updatePassword" -> [password |-> Get(call.hashed)]
      [] call.op = "delete" -> <<>>

\* the awaited db.update(users).set(...).where(eq(users.id, id)); the unique
\* index rejects an email another row holds
UserWrite(c) ==
    LET call == userCalls[c]
        data == updateData(call)
    IN  /\ call.pc = "write"
        /\ IF /\ "email" \in DOMAIN data
              /\ call.id \in DOMAIN users
              /\ ~isEmailAvailable(users, data.email, call.id)
           THEN /\ \E err \in UpdateFailures(data.email) :
                       userCalls' = [userCalls EXCEPT ![c].pc = "done",
                                                      ![c].error = Some(err)]
                /\ UNCHANGED users
           ELSE /\ users' = UpdateUserWhereId(users, call.id, data)
                /\ userCalls' = [userCalls EXCEPT ![c].pc = "fetch"]

\* the awaited select by id that ends update, updatePassword and delete,
\* and the route's throw when the service returned nothing
UserFetch(c) ==
    LET call == userCalls[c]
        found == SelectUserById(users, call.id)
    IN  /\ call.pc = "fetch"
        /\ call.op # "create"
        /\ userCalls' = [userCalls EXCEPT
                ![c].pc = "done",
                ![c].result = IF call.op = "delete" THEN found # Undefined ELSE found,
                ![c].error = IF call.route /\ found = Undefined
                             THEN Some(UserError_notFound(call.id, <<>>))
                             ELSE Undefined]
        /\ UNCHANGED users

\* findById and findAll: one select, and the throw of GET /users/:id
UserQuery(c) ==
    LET call == userCalls[c]
        found == SelectUserById(users, call.id)
    IN  /\ call.pc = "query"
        /\ userCalls' = [userCalls EXCEPT
                ![c].pc = "done",
                ![c].result = IF call.op = "findById" THEN found
                              ELSE { users[i] : i \in DOMAIN users },
                ![c].error = IF call.op = "findById" /\ found = Undefined
                             THEN Some(UserError_notFound(call.id, <<>>))
                             ELSE Undefined]
        /\ UNCHANGED users

NextUsers ==
    \/ \E c \in Callers, email \in Emails, password \in Passwords :
          CreateCall(c, email, password) /\ UNCHANGED <<handlerVars, requestVars, postVars, procVars>>
    \/ \E c \in Callers, body \in Bodies :
          PostUsers(c, body) /\ UNCHANGED <<handlerVars, requestVars, postVars, procVars>>
    \/ \E c \in Callers, id \in UserIds, userData \in { [email |-> e] : e \in Emails }
                                                \cup { [password |-> p] : p \in Passwords } :
          UpdateCall(c, id, userData) /\ UNCHANGED <<handlerVars, requestVars, postVars, procVars>>
    \/ \E c \in Callers, id \in UserIds, body \in Bodies :
          PutUser(c, id, body) /\ UNCHANGED <<handlerVars, requestVars, postVars, procVars>>
    \/ \E c \in Callers, id \in UserIds, new_password \in Passwords :
          PatchPassword(c, id, new_password) /\ UNCHANGED <<handlerVars, requestVars, postVars, procVars>>
    \/ \E c \in Callers, id \in UserIds :
          DeleteUser(c, id) /\ UNCHANGED <<handlerVars, requestVars, postVars, procVars>>
    \/ \E c \in Callers, id \in UserIds :
          GetUser(c, id) /\ UNCHANGED <<handlerVars, requestVars, postVars, procVars>>
    \/ \E c \in Callers : GetUsers(c) /\ UNCHANGED <<handlerVars, requestVars, postVars, procVars>>
    \/ \E c \in Callers : CreateCheck(c) /\ UNCHANGED <<handlerVars, requestVars, postVars, procVars>>
    \/ \E c \in Callers : UpdateCheck(c) /\ UNCHANGED <<handlerVars, requestVars, postVars, procVars>>
    \/ \E c \in Callers : UpdateHash(c) /\ UNCHANGED <<handlerVars, requestVars, postVars, procVars>>
    \/ \E c \in Callers : UserWrite(c) /\ UNCHANGED <<handlerVars, requestVars, postVars, procVars>>
    \/ \E c \in Callers : UserFetch(c) /\ UNCHANGED <<handlerVars, requestVars, postVars, procVars>>
    \/ \E c \in Callers : UserQuery(c) /\ UNCHANGED <<handlerVars, requestVars, postVars, procVars>>
    \/ \E c \in Callers : CreateHash(c) /\ UNCHANGED <<handlerVars, requestVars, postVars, procVars>>
    \/ \E c \in Callers : CreateInsert(c) /\ UNCHANGED <<handlerVars, requestVars, postVars, procVars>>
    \/ \E c \in Callers : CreateFetch(c) /\ UNCHANGED <<handlerVars, requestVars, postVars, procVars>>
    \/ \E c \in Callers : CreateReturn(c) /\ UNCHANGED <<handlerVars, requestVars, postVars, procVars>>

SpecUsers == Init /\ [][NextUsers]_vars

\* start(): the plugins and routes are registered and app.listen is called
StartListen ==
    /\ exitCode = Undefined
    /\ startPc = "registering"
    /\ startPc' = "listening"
    /\ UNCHANGED <<shuttingDown, forceExit, closing, onCloseRan, closeCalls,
                   timers, isReady, exitCode, signals, ready>>

\* start(): app.listen has resolved and the flag is set
ListenSucceeds ==
    /\ exitCode = Undefined
    /\ startPc = "listening"
    /\ startPc' = "started"
    /\ isReady' = TRUE
    /\ UNCHANGED <<shuttingDown, forceExit, closing, onCloseRan, closeCalls,
                   timers, exitCode, signals, ready>>

\* start(): a register call or app.listen has rejected: process.exit(1)
StartFails ==
    /\ exitCode = Undefined
    /\ startPc \in {"registering", "listening"}
    /\ startPc' = "failed"
    /\ exitCode' = Some(exitCodeOf("start"))
    /\ UNCHANGED <<shuttingDown, forceExit, closing, onCloseRan, closeCalls,
                   timers, isReady, signals, ready>>

\* a process.on handler calls shutdown(signal), which runs up to its await
Shutdown(signal) ==
    /\ exitCode = Undefined
    /\ Len(signals) < MaxSignals
    /\ signals' = Append(signals, signal)
    /\ IF shutdownReturnsEarly(shuttingDown)
       THEN UNCHANGED <<shuttingDown, forceExit, closing, closeCalls, timers>>
       ELSE /\ shuttingDown' = TRUE
            /\ forceExit' = "armed"
            /\ timers' = timers + 1
            /\ closing' = "pending"
            /\ closeCalls' = closeCalls + 1
    /\ UNCHANGED <<onCloseRan, startPc, isReady, exitCode, ready>>

\* app.close() runs the onClose hook of the server module
OnClose ==
    /\ exitCode = Undefined
    /\ closing = "pending"
    /\ ~onCloseRan
    /\ onCloseRan' = TRUE
    /\ isReady' = FALSE
    /\ UNCHANGED <<shuttingDown, forceExit, closing, closeCalls, timers,
                   startPc, exitCode, signals, ready>>

\* app.close() settles; shutdown() logs, clears the timer and exits with 0.
\* It resolves after its hooks have run and may reject at any point
CloseSettles(resolved) ==
    /\ exitCode = Undefined
    /\ closing = "pending"
    /\ resolved => onCloseRan
    /\ closing' = IF resolved THEN "resolved" ELSE "rejected"
    /\ forceExit' = "cleared"
    /\ exitCode' = Some(exitCodeOf("finally"))
    /\ UNCHANGED <<shuttingDown, onCloseRan, closeCalls, timers, startPc,
                   isReady, signals, ready>>

\* the callback of the force-exit timer
ForceExit ==
    /\ exitCode = Undefined
    /\ forceExit = "armed"
    /\ forceExit' = "fired"
    /\ exitCode' = Some(exitCodeOf("forceExit"))
    /\ UNCHANGED <<shuttingDown, closing, onCloseRan, closeCalls, timers,
                   startPc, isReady, signals, ready>>

\* a client asks GET /health/ready of the listening server
GetReady ==
    /\ exitCode = Undefined
    /\ startPc = "started"
    /\ ready' = Some(readyReply(isReady))
    /\ UNCHANGED <<shuttingDown, forceExit, closing, onCloseRan, closeCalls,
                   timers, startPc, isReady, exitCode, signals>>

NextProcess ==
    \/ StartListen /\ UNCHANGED <<handlerVars, requestVars, postVars, userVars>>
    \/ ListenSucceeds /\ UNCHANGED <<handlerVars, requestVars, postVars, userVars>>
    \/ StartFails /\ UNCHANGED <<handlerVars, requestVars, postVars, userVars>>
    \/ \E signal \in {"SIGINT", "SIGTERM", "uncaughtException",
                      "unhandledRejection"} :
          Shutdown(signal) /\ UNCHANGED <<handlerVars, requestVars, postVars, userVars>>
    \/ OnClose /\ UNCHANGED <<handlerVars, requestVars, postVars, userVars>>
    \/ \E resolved \in BOOLEAN :
          CloseSettles(resolved) /\ UNCHANGED <<handlerVars, requestVars, postVars, userVars>>
    \/ ForceExit /\ UNCHANGED <<handlerVars, requestVars, postVars, userVars>>
    \/ GetReady /\ UNCHANGED <<handlerVars, requestVars, postVars, userVars>>

SpecProcess == Init /\ [][NextProcess]_vars

\* the force-exit timer elapses while the process runs
SpecProcessFair == SpecProcess /\ WF_procVars(ForceExit)

\* the framework accepts a request on connection c and assigns its id
Receive(c, header) ==
    /\ conns[c].phase = "idle"
    /\ conns' = [conns EXCEPT ![c] =
            [IdleConn EXCEPT !.phase = "received",
                             !.client = header,
                             !.id = genReqId(header, randomUUID(c))]]
    /\ UNCHANGED outsideSeen

\* createRequestContextHook(req, reply, done), the onRequest hook
OnRequest(c) ==
    /\ conns[c].phase = "received"
    /\ conns' = setContext(
            [conns EXCEPT ![c].header = Some(conns[c].id),
                          ![c].phase = "running"],
            c, [requestId |-> conns[c].id])
    /\ UNCHANGED outsideSeen

\* a continuation of the request on c runs (route handler, logger mixin)
\* and calls getRequestId()
Continuation(c) ==
    /\ conns[c].phase = "running"
    /\ conns' = [conns EXCEPT ![c].seen = @ \cup {getRequestId(conns[c].store)}]
    /\ UNCHANGED outsideSeen

\* getRequestId() called by code that no request started
OutsideCall ==
    /\ outsideSeen' = outsideSeen \cup {getRequestId(Undefined)}
    /\ UNCHANGED conns

\* the request object the framework hands to the error handler
RequestOf(c) ==
    [id |-> conns[c].id, url |-> "/users/42", method |-> "GET",
     userAgent |-> Undefined]

\* the response of connection c has been written; the connection is free
Complete(c) ==
    /\ conns[c].phase = "responded"
    /\ conns' = [conns EXCEPT ![c] = IdleConn]
    /\ UNCHANGED outsideSeen

\* createErrorHandler(app): builds the registry and returns the callback
CreateErrorHandler ==
    /\ pc = "start"
    /\ handlers' = registerAll(<<>>, RegistrationOrder, 1)
    /\ pc' = "ready"
    /\ UNCHANGED <<raw, request, handler, errorInfo, response, log, console,
                   reply, outcome, steps, nHandled>>

\* the reply sent before the log attempt
stepsOfRespond_sendBeforeLog(loggerOk) ==
    <<"findHandler", "handle", "buildResponse", "send">>
    \o (IF loggerOk THEN <<"log">> ELSE <<"log", "console">>)

\* the statements of the callback in the order they are executed
stepsOfRespond(loggerOk) ==
    <<"findHandler", "handle", "buildResponse">>
    \o (IF loggerOk THEN <<"log">> ELSE <<"log", "console">>)
    \o <<"send">>

\* a callback without the try/catch around the logger call
Respond_loggerFailurePropagates(req, err, h, ts, loggerOk) ==
    LET info == handle(h, err)
        resp == buildResponse(h, info)
        level == getLogLevel(info.statusCode)
        data == logData(req, ts, info)
        entry == [level |-> level, data |-> data, msg |-> h \o " error"]
    IN  /\ handler' = h
        /\ errorInfo' = info
        /\ response' = resp
        /\ log' = IF loggerOk THEN <<entry>> ELSE <<>>
        /\ console' = <<>>
        /\ reply' = IF loggerOk
                    THEN [sent |-> 1, status |-> replyStatus(info),
                          body |-> replyBody(req.id, resp)]
                    ELSE [sent |-> 0]
        /\ outcome' = IF loggerOk THEN "sent" ELSE "threw"
        /\ steps' = IF loggerOk THEN stepsOfRespond(loggerOk)
                    ELSE <<"findHandler", "handle", "buildResponse", "log">>

\* the callback returns normally: classification, logging and the reply
Respond(req, err, h, ts, loggerOk) ==
    LET info == handle(h, err)
        resp == buildResponse(h, info)
        level == getLogLevel(info.statusCode)
        data == logData(req, ts, info)
        entry == [level |-> level, data |-> data, msg |-> h \o " error"]
    IN  /\ handler' = h
        /\ errorInfo' = info
        /\ response' = resp
        /\ log' = IF loggerOk THEN <<entry>> ELSE <<>>
        /\ console' = IF loggerOk THEN <<>>
                      ELSE <<[label |-> "Logger error:"],
                             [label |-> "Original error:", data |-> data]>>
        /\ reply' = [sent |-> 1, status |-> replyStatus(info),
                     body |-> replyBody(req.id, resp)]
        /\ outcome' = "sent"
        /\ steps' = stepsOfRespond(loggerOk)

\* the callback is left by an exception before anything is logged or sent
Throw ==
    /\ handler' = "none"
    /\ errorInfo' = NoRecord
    /\ response' = NoRecord
    /\ log' = <<>>
    /\ console' = <<>>
    /\ reply' = [sent |-> 0]
    /\ outcome' = "threw"
    /\ steps' = <<"findHandler">>

\* the callback returned by createErrorHandler, invoked by the framework
\* with the raised value err for request req
HandleError(req, err, ts, loggerOk) ==
    /\ pc = "ready"
    /\ nHandled < MaxHandled
    /\ raw' = err
    /\ request' = req
    /\ nHandled' = nHandled + 1
    /\ LET found == findHandler(handlers, err)
       IN  IF found.kind = "throw"
           THEN Throw
           ELSE Respond(req, err, found.handler, ts, loggerOk)
    /\ handlers' = handlersAfterFind(handlers)
    /\ UNCHANGED pc

Next ==
    \/ CreateErrorHandler /\ UNCHANGED <<requestVars, postVars, userVars, procVars>>
    \/ \E req \in Requests, err \in RawValues, ts \in Timestamps,
          loggerOk \in BOOLEAN :
            HandleError(req, err, ts, loggerOk) /\ UNCHANGED <<requestVars, postVars, userVars, procVars>>

Spec == Init /\ [][Next]_vars

(***************************************************************************)
(* Requests failing concurrently: the route of the request on c raises     *)
(* err and the framework invokes the error handler with the request.       *)
(***************************************************************************)
RouteErrors ==
    { UserError_notFound(42, <<>>), ErrorObject("Error", "disk full"),
      ZodError(<<Issue(<<Key("email")>>, "Invalid email format", Undefined)>>) }

Fail(c, err, ts, loggerOk) ==
    /\ conns[c].phase = "running"
    /\ HandleError(RequestOf(c), err, ts, loggerOk)
    /\ conns' = [conns EXCEPT
            ![c].phase = "responded",
            ![c].out = Some([status |-> reply'.status, body |-> reply'.body,
                             log |-> log', console |-> console'])]
    /\ UNCHANGED outsideSeen

NextRequests ==
    \/ CreateErrorHandler /\ UNCHANGED <<requestVars, postVars, userVars, procVars>>
    \/ \E c \in Conns, header \in ClientHeaders : Receive(c, header) /\ UNCHANGED <<handlerVars, postVars, userVars, procVars>>
    \/ \E c \in Conns : OnRequest(c) /\ UNCHANGED <<handlerVars, postVars, userVars, procVars>>
    \/ \E c \in Conns : Continuation(c) /\ UNCHANGED <<handlerVars, postVars, userVars, procVars>>
    \/ OutsideCall /\ UNCHANGED <<handlerVars, postVars, userVars, procVars>>
    \/ \E c \in Conns, err \in RouteErrors, ts \in Timestamps, loggerOk \in BOOLEAN :
          Fail(c, err, ts, loggerOk) /\ UNCHANGED <<postVars, userVars, procVars>>
    \/ \E c \in Conns : Complete(c) /\ UNCHANGED <<handlerVars, postVars, userVars, procVars>>

SpecRequests == Init /\ [][NextRequests]_vars

(***************************************************************************)
(* Properties.                                                             *)
(***************************************************************************)
Invoked == outcome # "none"

Sent == outcome = "sent"

\* C1: every raised AppError also satisfies the status/code-attribute
\* predicate of FastifyErrorHandler, yet it is classified by the domain
\* branch: statusCode, code and context are the error's own and body.error
\* is "Application Error", never "Server Error".
C1_DomainBranchWins ==
    (Invoked /\ InstanceOf(raw, "AppError")) =>
        /\ FastifyErrorHandler_canHandle(raw)
        /\ Sent
        /\ handler = "AppErrorHandler"
        /\ errorInfo.statusCode = Get(raw.statusCode)
        /\ errorInfo.code = Get(raw.code)
        /\ errorInfo.context = raw.context
        /\ reply.body.error = "Application Error"

C1_Witness ==
    /\ Sent
    /\ raw = UserError_notFound(42, <<>>)
    /\ reply.body.error = "Application Error"
    /\ errorInfo.statusCode = 404

\* C2: register appends, so after createErrorHandler the list is Zod,
\* Drizzle, AppError, Fastify, Generic in that order; the last handler
\* accepts every error, and for every raised error object findHandler
\* returns the earliest-registered handler whose canHandle is true.
C2_FirstMatchInRegistrationOrder ==
    (pc = "ready") =>
        /\ Len(handlers) = 5
        /\ handlers[1] = "ZodErrorHandler"
        /\ handlers[2] = "DrizzleErrorHandler"
        /\ handlers[3] = "AppErrorHandler"
        /\ handlers[4] = "FastifyErrorHandler"
        /\ handlers[5] = "GenericErrorHandler"
        /\ (Invoked /\ IsObject(raw)) =>
              /\ canHandle(handlers[Len(handlers)], raw)
              /\ Sent
              /\ \E i \in 1..Len(handlers) :
                    /\ handler = handlers[i]
                    /\ canHandle(handlers[i], raw)
                    /\ \A j \in 1..(i - 1) : ~canHandle(handlers[j], raw)

C2_Witness ==
    /\ Sent
    /\ handler = "GenericErrorHandler"
    /\ \A i \in 1..4 : ~canHandle(handlers[i], raw)

\* C3: every classification returns a statusCode in 100..599 and a
\* non-empty code.
C3_NormalizedInRange ==
    Sent => (errorInfo.statusCode \in 100..599 /\ errorInfo.code # "")

\* C4: the global error handler never throws; for every raised value the
\* caller receives a well-formed response, and a value that classification
\* cannot process is answered with 500 / INTERNAL_SERVER_ERROR.
C4_NeverThrows ==
    Invoked =>
        /\ Sent
        /\ reply.sent = 1
        /\ {"error", "code", "requestId"} \subseteq DOMAIN reply.body
        /\ (~IsObject(raw)) =>
              (reply.status = 500 /\ reply.body.code = "INTERNAL_SERVER_ERROR")

\* C5: the log level is a function of the status code alone: fatal from
\* 500 up, error in 400..499, warn in 300..399, info in 200..299 and info
\* for every other value; 200, 300, 400 and 500 give info, warn, error, fatal.
C5_LogLevelByStatus ==
    (Sent /\ log # <<>>) =>
        LET s == errorInfo.statusCode
            level == log[1].level
        IN  /\ (s >= 500) => level = "fatal"
            /\ (s \in 400..499) => level = "error"
            /\ (s \in 300..399) => level = "warn"
            /\ (s \in 200..299) => level = "info"
            /\ (s < 200) => level = "info"
            /\ (s = 200) => level = "info"
            /\ (s = 300) => level = "warn"
            /\ (s = 400) => level = "error"
            /\ (s = 500) => level = "fatal"

C5_Witness ==
    /\ Sent
    /\ log # <<>>
    /\ errorInfo.statusCode = 400
    /\ log[1].level = "error"

ErrorVocabulary ==
    {"Validation Error", "Application Error", "Internal Server Error", "Server Error"}

WithoutContext(body) == [k \in DOMAIN body \ {"context"} |-> body[k]]

HasDiagnostics(body) ==
    "context" \in DOMAIN body /\ DOMAIN body.context # {}

Internals(err) ==
    {err.message, err.stack, err.query}
    \cup { err.params[i] : i \in 1..Len(err.params) } \cup err.cause

\* C8: when the Drizzle handler or the generic handler classifies the
\* error, the body holds nothing but requestId, error, code and at most an
\* empty context, none of which is the stack, the raw message, the query
\* text, a parameter or the cause; the log record holds the stack and the
\* classified context.
C8_NoInternalsInBody ==
    (Sent /\ handler \in {"DrizzleErrorHandler", "GenericErrorHandler"}) =>
        /\ DOMAIN reply.body \subseteq {"requestId", "error", "code", "context"}
        /\ ~HasDiagnostics(reply.body)
        /\ reply.body.error \notin Internals(raw)
        /\ reply.body.code \notin Internals(raw)
        /\ reply.body.requestId \notin Internals(raw)
        /\ (log # <<>>) =>
              /\ log[1].data.error.stack = raw.stack
              /\ (handler = "GenericErrorHandler") =>
                    log[1].data.error.message = raw.message
              /\ (InstanceOf(raw, "DrizzleQueryError")) =>
                    /\ log[1].data.error.context.query = raw.query
                    /\ log[1].data.error.context.params = raw.params
              /\ (InstanceOf(raw, "DrizzleError")) =>
                    log[1].data.error.context.message = raw.message

C8_Witness ==
    /\ Sent
    /\ handler = "GenericErrorHandler"
    /\ raw.message = "disk full"
    /\ reply.body.error = "Internal Server Error"
    /\ reply.status = 500
    /\ log # <<>>
    /\ log[1].data.error.message = "disk full"

\* the dotted field path of each modelled issue path
FieldOf(path) ==
    CASE path = <<>> -> ""
      [] path = <<Key("email")>> -> "email"
      [] path = <<Key("user"), Key("email")>> -> "user.email"
      [] path = <<Key("tags"), Index(12)>> -> "tags.12"

C10_DrizzleBySubKind ==
    (Invoked /\ (InstanceOf(raw, "DrizzleError")
                   \/ InstanceOf(raw, "DrizzleQueryError"))) =>
        /\ Sent
        /\ handler = "DrizzleErrorHandler"
        /\ (raw.cls = "DrizzleQueryError") =>
              /\ errorInfo.statusCode = 400
              /\ errorInfo.code = "DATABASE_QUERY_ERROR"
              /\ errorInfo.context.query = raw.query
              /\ errorInfo.context.params = raw.params
        /\ (raw.cls # "DrizzleQueryError") =>
              /\ errorInfo.statusCode = 500
              /\ errorInfo.code = "DATABASE_ERROR"
              /\ DOMAIN errorInfo.context \cap {"query", "params"} = {}

C10_Witness ==
    /\ Sent
    /\ raw.cls = "DrizzleQueryError"
    /\ raw.props = {"statusCode", "code"}
    /\ raw.params # <<>>
    /\ errorInfo.statusCode = 400
    /\ errorInfo.code = "DATABASE_QUERY_ERROR"

\* C11: a raw duplicate-key failure on email that reaches the handler
\* unwrapped is classified as 409 / DATABASE_CONSTRAINT_VIOLATION.
C11_DuplicateKeyIs409 ==
    (Sent /\ raw \in DuplicateKeyFailures) =>
        /\ errorInfo.statusCode = 409
        /\ errorInfo.code = "DATABASE_CONSTRAINT_VIOLATION"

\* the logger call of the last invocation raised an exception
LoggerFailed == Invoked /\ IsObject(raw) /\ log = <<>>

Positions(step) == { i \in 1..Len(steps) : steps[i] = step }

Before(a, b) == \A i \in Positions(a), j \in Positions(b) : i < j

FixedStatus(name) ==
    CASE name = "UserError.notFound" -> 404
      [] name = "UserError.alreadyExists" -> 409
      [] name = "UserError.creationFailed" -> 500
      [] name = "UserError.authenticationFailed" -> 401
      [] name = "PostError.notFound" -> 404
      [] name = "PostError.alreadyPublished" -> 409
      [] name = "PostError.notPublished" -> 409
      [] name = "DatabaseError.constraintViolation" -> 409
      [] name = "DatabaseError.connectionFailed" -> 503
      [] name = "DatabaseError.queryFailed" -> 500

FixedCode(name) ==
    CASE name = "UserError.notFound" -> "USER_NOT_FOUND"
      [] name = "UserError.alreadyExists" -> "USER_ALREADY_EXISTS"
      [] name = "UserError.creationFailed" -> "USER_CREATION_FAILED"
      [] name = "UserError.authenticationFailed" -> "AUTHENTICATION_FAILED"
      [] name = "PostError.notFound" -> "POST_NOT_FOUND"
      [] name = "PostError.alreadyPublished" -> "POST_ALREADY_PUBLISHED"
      [] name = "PostError.notPublished" -> "POST_NOT_PUBLISHED"
      [] name = "DatabaseError.constraintViolation" -> "DATABASE_CONSTRAINT_VIOLATION"
      [] name = "DatabaseError.connectionFailed" -> "DATABASE_CONNECTION_FAILED"
      [] name = "DatabaseError.queryFailed" -> "DATABASE_QUERY_FAILED"

C17_RegistryFrozen == [][(pc = "ready") => (handlers' = handlers)]_vars

C17_Witness ==
    /\ nHandled >= 2
    /\ Sent
    /\ handlers = RegistrationOrder

InScope(c) == conns[c].phase = "running"

\* C14: in every interleaving, each getRequestId() call made by a
\* continuation of a request returned that request's own id, never the id
\* of another request in flight; every call outside a request scope
\* returned undefined.
C14_ContextIsolation ==
    /\ \A c \in Conns :
          /\ conns[c].seen \subseteq {Some(conns[c].id)}
          /\ \A d \in Conns :
                (d # c /\ conns[d].phase # "idle" /\ conns[d].id # conns[c].id) =>
                    Some(conns[d].id) \notin conns[c].seen
    /\ outsideSeen \subseteq {Undefined}

C14_Witness ==
    /\ InScope("A")
    /\ InScope("B")
    /\ conns["A"].id # conns["B"].id
    /\ conns["A"].seen = {Some(conns["A"].id)}
    /\ conns["B"].seen = {Some(conns["B"].id)}
    /\ outsideSeen = {Undefined}

\* the request ids that appear in the outputs of the request on c
OutputIds(c) ==
    LET o == Get(conns[c].out)
    IN  {o.body.requestId} \cup conns[c].header
        \cup { o.log[i].data.request.requestId : i \in 1..Len(o.log) }
        \cup { o.console[i].data.request.requestId :
                  i \in { j \in 1..Len(o.console) : "data" \in DOMAIN o.console[j] } }

\* C15: the id of a failed request is the client's x-request-id when one
\* was sent; it is the requestId of the request's response body, its
\* x-request-id response header and its log record, and the id of a
\* different request in flight appears in none of them.
C15_RequestIdRoundTrip ==
    \A c \in Conns :
        (conns[c].out # Undefined) =>
            /\ (conns[c].client # Undefined) => conns[c].id = Get(conns[c].client)
            /\ "requestId" \in DOMAIN Get(conns[c].out).body
            /\ conns[c].header # Undefined
            /\ OutputIds(c) = {conns[c].id}
            /\ Len(Get(conns[c].out).log) + Len(Get(conns[c].out).console) > 0
            /\ \A d \in Conns :
                  (d # c /\ conns[d].phase # "idle" /\ conns[d].id # conns[c].id) =>
                      conns[d].id \notin OutputIds(c)

C15_Witness ==
    /\ conns["A"].out # Undefined
    /\ conns["B"].out # Undefined
    /\ conns["A"].client = Some("req-1")
    /\ conns["B"].client = Undefined
    /\ Get(conns["A"].out).body.requestId = "req-1"
    /\ Get(conns["B"].out).body.requestId = "uuid-B"
    /\ Len(Get(conns["A"].out).log) = 1

\* caller c executes the write statement of its call in this step
WriteStep(c) ==
    postCalls[c].pc \in {"called", "checked"} /\ postCalls'[c].pc = "written"

\* caller c executes the select of its write call and returns in this step
SelectStep(c) == postCalls[c].pc = "written" /\ postCalls'[c].pc = "done"

IsDeleted(row) == row # Undefined /\ Get(row).deleted_at # Undefined

\* C18: the write of delete(p) on an existing post leaves p hidden from
\* findById and listed by findDeleted; the write of restore(p) leaves
\* deleted_at null and p returned by findById, and restore returns the
\* post it selects.
C18_SoftDeleteRoundTrip ==
    [][\A c \in Callers :
        LET id == postCalls[c].id
        IN  /\ (WriteStep(c) /\ posts[id] # Undefined /\ postCalls[c].op = "delete") =>
                  /\ findById(posts', id) = Undefined
                  /\ posts'[id] # Undefined
                  /\ Get(posts'[id]) \in findDeleted(posts')
            /\ (WriteStep(c) /\ posts[id] # Undefined /\ postCalls[c].op = "restore") =>
                  /\ posts'[id] # Undefined
                  /\ Get(posts'[id]).deleted_at = Undefined
                  /\ findById(posts', id) = posts'[id]
            /\ (SelectStep(c) /\ postCalls[c].op = "restore") =>
                  postCalls'[c].result = posts[id]
            /\ (SelectStep(c) /\ postCalls[c].op = "delete") =>
                  postCalls'[c].result = (posts[id] # Undefined)
      ]_vars

C18_Witness ==
    \E c \in Callers :
        /\ postCalls[c].op = "restore"
        /\ postCalls[c].pc = "done"
        /\ IsDeleted(postCalls[c].before)
        /\ postCalls[c].result # Undefined
        /\ Get(postCalls[c].result).deleted_at = Undefined
        /\ findById(posts, postCalls[c].id) = postCalls[c].result

\* C19: update on a post whose deleted_at is set changes no field of the
\* row and returns undefined.
C19_UpdateSkipsDeleted ==
    [][\A c \in Callers :
        LET id == postCalls[c].id
        IN  (postCalls[c].op = "update" /\ IsDeleted(posts[id])) =>
                /\ WriteStep(c) => posts' = posts
                /\ SelectStep(c) => postCalls'[c].result = Undefined
      ]_vars

\* the call of c has passed the existence check and has ended
PassedCheck(c) ==
    /\ userCalls[c].op = "create"
    /\ userCalls[c].pc = "done"
    /\ userCalls[c].hashed # Undefined

\* C20: when two create calls with the same email have both passed the
\* existence check and have ended, one row holds the email, exactly one
\* call returned a user, and the other failed with an error classified as
\* 409 USER_ALREADY_EXISTS or DATABASE_CONSTRAINT_VIOLATION.
C20_ConcurrentCreateConflict ==
    \A c1, c2 \in Callers :
        (/\ c1 # c2
         /\ PassedCheck(c1)
         /\ PassedCheck(c2)
         /\ userCalls[c1].userData.email = userCalls[c2].userData.email
         /\ userCalls[c1].result # Undefined) =>
            /\ Cardinality(SelectByEmail(users, userCalls[c1].userData.email)) <= 1
            /\ userCalls[c2].result = Undefined
            /\ userCalls[c2].error # Undefined
            /\ classify(Get(userCalls[c2].error)).statusCode = 409
            /\ classify(Get(userCalls[c2].error)).code \in
                   {"USER_ALREADY_EXISTS", "DATABASE_CONSTRAINT_VIOLATION"}

\* caller c executes the select and the tests of publish or unpublish
CheckStep(c) ==
    /\ postCalls[c].pc = "called"
    /\ postCalls[c].op \in CheckedOps
    /\ postCalls'[c].pc \in {"checked", "done"}

\* the call of c has ended in this step with an error classified as
\* statusCode and code
FailsWith(c, statusCode, code) ==
    /\ postCalls'[c].pc = "done"
    /\ postCalls'[c].error # Undefined
    /\ classify(Get(postCalls'[c].error)).statusCode = statusCode
    /\ classify(Get(postCalls'[c].error)).code = code
    /\ posts' = posts

C29_ConcurrentPublish ==
    \A c1, c2 \in Callers :
        (/\ c1 # c2
         /\ postCalls[c1].op = "publish"
         /\ postCalls[c2].op = "publish"
         /\ postCalls[c1].id = postCalls[c2].id
         /\ postCalls[c1].pc = "done"
         /\ postCalls[c2].pc = "done"
         /\ postCalls[c1].existingPost # Undefined
         /\ postCalls[c1].existingPost = postCalls[c2].existingPost
         /\ Get(postCalls[c1].existingPost).published_at = Undefined
         /\ postCalls[c1].result # Undefined) =>
            /\ postCalls[c2].result = Undefined
            /\ postCalls[c2].error # Undefined
            /\ classify(Get(postCalls[c2].error)).code = "POST_ALREADY_PUBLISHED"

\* C30: the write of delete leaves the deleted_at of an already soft-deleted
\* post as it was, and never changes published_at, title or content.
C30_DeleteIdempotent ==
    [][\A c \in Callers :
        LET id == postCalls[c].id
        IN  (WriteStep(c) /\ postCalls[c].op = "delete" /\ posts[id] # Undefined) =>
                /\ posts'[id] # Undefined
                /\ IsDeleted(posts[id]) =>
                       Get(posts'[id]).deleted_at = Get(posts[id]).deleted_at
                /\ Get(posts'[id]).published_at = Get(posts[id]).published_at
                /\ Get(posts'[id]).title = Get(posts[id]).title
                /\ Get(posts'[id]).content = Get(posts[id]).content
      ]_vars

\* the call of c ends in this step with USER_ALREADY_EXISTS (409) and the
\* table is left as it was
Conflict(c) ==
    /\ userCalls'[c].pc = "done"
    /\ userCalls'[c].error # Undefined
    /\ classify(Get(userCalls'[c].error)).statusCode = 409
    /\ classify(Get(userCalls'[c].error)).code = "USER_ALREADY_EXISTS"
    /\ users' = users

\* caller c executes the existence test of op in this step
UserCheckStep(c, op) ==
    /\ userCalls[c].op = op
    /\ userCalls[c].pc = "check"
    /\ userCalls'[c].pc # "check"

\* C26: create with an email some stored user holds ends at its existence
\* test with USER_ALREADY_EXISTS (409), the context naming the field 'email'
\* and the attempted value, without an insert and with the table unchanged.
C26_DuplicateEmailRejected ==
    [][\A c \in Callers :
        (/\ UserCheckStep(c, "create")
         /\ SelectByEmail(users, userCalls[c].userData.email) # {}) =>
            /\ Conflict(c)
            /\ LET context == classify(Get(userCalls'[c].error)).context
               IN  /\ {"field", "email"} \subseteq DOMAIN context
                   /\ context.field = "email"
                   /\ context.email = userCalls[c].userData.email
      ]_vars

C26_Witness ==
    \E c \in Callers :
        /\ userCalls[c].op = "create"
        /\ userCalls[c].pc = "done"
        /\ userCalls[c].hashed = Undefined
        /\ userCalls[c].error # Undefined
        /\ classify(Get(userCalls[c].error)).code = "USER_ALREADY_EXISTS"
        /\ SelectByEmail(users, userCalls[c].userData.email) # {}

\* some stored user other than id holds the email
HeldByOther(email, id) ==
    \E i \in DOMAIN users : users[i].email = email /\ users[i].id # id

\* C27: update with an email ends with USER_ALREADY_EXISTS exactly when, at
\* its email test, a stored user with another id holds that email; the
\* user's own email raises no conflict, and the failing call changes no row.
C27_UpdateEmailConflict ==
    [][\A c \in Callers :
        /\ UserCheckStep(c, "update") =>
              IF HeldByOther(userCalls[c].userData.email, userCalls[c].id)
              THEN Conflict(c)
              ELSE userCalls'[c].error = Undefined /\ userCalls'[c].pc # "done"
        /\ (/\ userCalls[c].op = "update"
            /\ userCalls[c].pc # "check"
            /\ userCalls[c].error = Undefined
            /\ userCalls'[c].op = "update"
            /\ userCalls'[c].error # Undefined) =>
              classify(Get(userCalls'[c].error)).code # "USER_ALREADY_EXISTS"
      ]_vars

C27_Witness ==
    \E c1, c2 \in Callers :
        /\ userCalls[c1].op = "update"
        /\ userCalls[c1].pc = "write"
        /\ userCalls[c1].id \in DOMAIN users
        /\ "email" \in DOMAIN userCalls[c1].userData
        /\ users[userCalls[c1].id].email = userCalls[c1].userData.email
        /\ userCalls[c2].op = "update"
        /\ userCalls[c2].pc = "done"
        /\ userCalls[c2].error # Undefined
        /\ classify(Get(userCalls[c2].error)).code = "USER_ALREADY_EXISTS"

\* caller c executes the write of its update, updatePassword or delete
UserWriteStep(c) == userCalls[c].pc = "write" /\ userCalls'[c].pc = "fetch"

\* C21: the write of PUT /users/:id and of PATCH /users/:id/password and the
\* insert of POST /users store the hash of the password in the request body,
\* and no row ever holds a client's plaintext.
C21_StoredPasswordIsHash ==
    [][/\ \A c \in Callers :
            LET call == userCalls[c]
            IN  /\ (UserWriteStep(c) /\ call.route /\ call.op = "update"
                    /\ call.id \in DOMAIN users) =>
                       users'[call.id].password = hashPassword(call.body.password)
                /\ (UserWriteStep(c) /\ call.route /\ call.op = "updatePassword"
                    /\ call.id \in DOMAIN users) =>
                       users'[call.id].password = hashPassword(call.body.new_password)
                /\ (call.pc = "insert" /\ call.route /\ userCalls'[c].pc = "fetch") =>
                       users'[Len(users')].password = hashPassword(call.body.password)
       /\ \A i \in DOMAIN users' : users'[i].password \notin Passwords
      ]_vars

\* C22: once DELETE /users/:id has succeeded for u, the select of a
\* following GET /users/:id for u ends in USER_NOT_FOUND (404) and the one
\* of GET /users does not return u.
C22_DeletedUserHidden ==
    [][\A c, d \in Callers :
        (/\ c # d
         /\ userCalls[d].op = "delete"
         /\ userCalls[d].pc = "done"
         /\ userCalls[d].error = Undefined
         /\ userCalls[c].pc = "query"
         /\ userCalls'[c].pc = "done") =>
            IF userCalls[c].op = "findById"
            THEN userCalls[c].id = userCalls[d].id =>
                    /\ userCalls'[c].error # Undefined
                    /\ classify(Get(userCalls'[c].error)).statusCode = 404
                    /\ classify(Get(userCalls'[c].error)).code = "USER_NOT_FOUND"
            ELSE \A row \in userCalls'[c].result : row.id # userCalls[d].id
      ]_vars

Exited == exitCode # Undefined

CloseSettled == closing \in {"resolved", "rejected"}

\* the exit is the one of shutdown(): 0 when app.close() has settled, 1
\* through the timer while it is pending
ExitOfShutdown ==
    \/ exitCode = Some(0) /\ CloseSettled /\ forceExit = "cleared"
    \/ exitCode = Some(1) /\ closing = "pending" /\ forceExit = "fired"

C28_ShutdownOnce ==
    [][/\ shuttingDown => (closeCalls' = closeCalls /\ timers' = timers)
       /\ closeCalls' <= 1
       /\ timers' <= 1
      ]_vars

C28_Witness ==
    /\ shuttingDown
    /\ Len(signals) >= 2
    /\ signals[1] # signals[2]
    /\ closeCalls = 1
    /\ timers = 1

====
